---- MODULE Spec2Model ----
(***************************************************************************)
(* State-machine model of the in-memory bookkeeping classes of the         *)
(* repository:                                                             *)
(*   - AzureDevOpsSimulator   (src/Assignment7.py)                         *)
(*   - ReleaseApprovalManager (src/Assignment8.py)                         *)
(*   - HPASimulator           (src/Assignment6.py)                         *)
(*                                                                         *)
(* Every public method is an operator that computes, from the current      *)
(* state and the arguments, the value returned and the new value of every  *)
(* field the method assigns; the action of the same name applies it to     *)
(* arguments drawn from small input sets and records the call in `last`.   *)
(*                                                                         *)
(* Python None is a record with present = FALSE (current_user and the      *)
(* optional dataclasses) and the string "None" in the record of the last   *)
(* call, datetime.now() is a logical                                       *)
(* clock that advances at each reading, and uuid4 identifiers are fresh    *)
(* names taken in order from a table.                                      *)
(***************************************************************************)
EXTENDS Integers, Sequences, FiniteSets, TLC

VARIABLES
    users,              \* AzureDevOpsSimulator.users: username -> roles
    groups,             \* AzureDevOpsSimulator.groups: name -> members
    branches,           \* AzureDevOpsSimulator.branches: name -> Branch
    pull_requests,      \* AzureDevOpsSimulator.pull_requests: id -> PullRequest
    work_items,         \* AzureDevOpsSimulator.work_items: id -> assigned_to
    work_item_lists,    \* the Python list objects the pull requests hold
    current_user,       \* AzureDevOpsSimulator.current_user
    clock,              \* number of datetime.now() readings stored so far
    pipelines,          \* AzureDevOpsSimulator.pipelines: id -> Pipeline
    environments,       \* ReleaseApprovalManager.environments
    heap,               \* the Python list objects holding approver e-mails
    approval_requests,  \* ReleaseApprovalManager.approval_requests
    hpa,                \* the HPASimulator object (src/Assignment6.py)
    hpa_loop,           \* simulate_load: its loop variable and its range
    caller,             \* the calls made so far, when the caller counts them
    last                \* the last call: method, main argument, outcome

vars == <<users, groups, branches, pull_requests, work_items,
          work_item_lists, current_user,
          clock, pipelines, environments, heap, approval_requests, hpa,
          hpa_loop, caller, last>>

devopsVars == <<users, groups, branches, pull_requests, work_items,
                work_item_lists,
                current_user, clock, pipelines>>

ramVars == <<environments, heap, approval_requests>>

-----------------------------------------------------------------------------
(* Bounds of the model *)

MaxPRs == 1
MaxClock == 2
MaxLinks == 3
MaxWorkItems == 4
MaxEnvCreations == 2
MaxAppends == 2
MaxRequests == 2
MaxPipelines == 2
MaxGates == 1
MaxMinutes == 4
MaxCalls == 4

-----------------------------------------------------------------------------
(* Enumerations and values *)

\* None as written in the record of the last call
None == "None"

\* current_user: Optional[str] = None, and the value login assigns
NoUser == [present |-> FALSE, name |-> ""]

LoggedIn(username) == [present |-> TRUE, name |-> username]

\* `not self.current_user`: None and the empty string are both falsy
Falsy(cur) == ~cur.present \/ cur.name = ""

PROJECT_ADMIN == "Project Administrator"
CONTRIBUTOR == "Contributor"
READER == "Reader"
BUILD_ADMIN == "Build Administrator"

ALLOW == "Allow"
DENY == "Deny"

ACTIVE == "Active"
COMPLETED == "Completed"
ABANDONED == "Abandoned"

PullRequestStatus == {ACTIVE, COMPLETED, ABANDONED}

\* Optional[BranchPolicy] = None
NoPolicy == [present |-> FALSE, require_code_review |-> FALSE]

BranchPolicy(review) == [present |-> TRUE, require_code_review |-> review]

\* Optional[BranchSecurity] = None
NoSecurity == [present |-> FALSE, is_locked |-> FALSE, lock_reason |-> "",
               path_filters |-> <<>>, user_permissions |-> {}]

\* Branch(name, is_default): no policy, no security, no commits
Branch == [policy |-> NoPolicy, security |-> NoSecurity, commits |-> <<>>]

\* the fresh identifiers str(uuid.uuid4())[:8] hands out, in order
PrIds == <<"pr1", "pr2", "pr3">>

WorkItemIds == <<"wi1", "wi2", "wi3", "wi4", "wi5">>

\* Inputs of the calls
GhostUser == "guest"
GhostBranch == "ghost-branch"
GhostPr == "ghost-pr"
GhostWorkItem == "ghost-wi"

UserInputs == {"admin", "developer1", GhostUser}

CreateUserInputs == {<<GhostUser, {PROJECT_ADMIN}>>, <<"admin", {CONTRIBUTOR}>>}

BranchInputs == {"main", "develop", GhostBranch}

GroupInputs == {"Admins", "Release"}

PrBranchInputs == {<<"feature/user-auth", "main">>,
                   <<"feature/user-auth", "develop">>,
                   <<"feature/user-auth", GhostBranch>>}

\* the calls of create_pull_request: each pair of branches with the default
\* work_items (None, written <<>>), and one call whose work_items is a list
\* object of the caller holding an existing and a non-existent work item id
PrCallInputs ==
    {<<in[1], in[2], <<>>>> : in \in PrBranchInputs}
    \cup {<<"feature/user-auth", "develop", <<"wi1", GhostWorkItem>>>>}

\* the work_items argument of a call: 0 for None; for a list of the caller,
\* the reference of a new list object or of one that exists already
WorkItemsArguments(contents) ==
    IF contents = <<>>
    THEN {0}
    ELSE {Len(work_item_lists) + 1} \cup DOMAIN work_item_lists

PrInputs == DOMAIN pull_requests \cup {GhostPr}

\* Python's True and False as recorded in `last`
Bool(b) == IF b THEN "True" ELSE "False"

Call(op, arg, ret) == [op |-> op, arg |-> arg, ret |-> ret]

Range(s) == {s[i] : i \in DOMAIN s}

RECURSIVE Appended(_, _)

-----------------------------------------------------------------------------
(* AzureDevOpsSimulator: users and groups *)

\* create_user: users[username] = User(username, ..., roles)
create_user(us, username, roles) ==
    IF username \in DOMAIN us
    THEN [us EXCEPT ![username] = roles]
    ELSE us @@ (username :> roles)

\* login returns True and sets current_user only for an existing user
login(us, cur, username) ==
    IF username \in DOMAIN us
    THEN [ret |-> TRUE, current_user |-> LoggedIn(username)]
    ELSE [ret |-> FALSE, current_user |-> cur]

\* create_group: groups[name] = Group(name, description), members empty
create_group(gs, name) ==
    IF name \in DOMAIN gs
    THEN [gs EXCEPT ![name] = {}]
    ELSE gs @@ (name :> {})

add_user_to_group_toggle(us, gs, username, group_name) ==
    IF username \in DOMAIN us /\ group_name \in DOMAIN gs
    THEN IF username \in gs[group_name]
         THEN [ret |-> FALSE, groups |-> gs]
         ELSE [ret |-> TRUE,
               groups |-> [gs EXCEPT ![group_name] = @ \cup {username}]]
    ELSE [ret |-> FALSE, groups |-> gs]

\* add_user_to_group: members.add(username) when user and group both exist
add_user_to_group(us, gs, username, group_name) ==
    IF username \in DOMAIN us /\ group_name \in DOMAIN gs
    THEN [ret |-> TRUE,
          groups |-> [gs EXCEPT ![group_name] = @ \cup {username}]]
    ELSE [ret |-> FALSE, groups |-> gs]

check_permission_any(us, username, required_role) ==
    username \in DOMAIN us

\* check_permission: False for an unknown user (None included)
check_permission(us, username, required_role) ==
    IF username \notin DOMAIN us
    THEN FALSE
    ELSE required_role \in us[username]

-----------------------------------------------------------------------------
(* AzureDevOpsSimulator: branches *)

\* create_branch: branches[name] = Branch(name, is_default)
\* create_branch assigning a new dictionary: branches = {name: Branch(...)}
create_branch_only(brs, name) == (name :> Branch)

create_branch(brs, name) ==
    IF name \in DOMAIN brs
    THEN [brs EXCEPT ![name] = Branch]
    ELSE brs @@ (name :> Branch)

apply_branch_policy(brs, branch_name, policy) ==
    IF branch_name \in DOMAIN brs
    THEN [ret |-> TRUE, branches |-> [brs EXCEPT ![branch_name].policy = policy]]
    ELSE [ret |-> FALSE, branches |-> brs]

\* BranchSecurity.user_permissions as apply_branch_security fills it: the
\* pairs <<user, permission under "GenericRead">>
UserPermissions(branch_name) ==
    IF branch_name = "main"
    THEN {<<"admin", ALLOW>>, <<"developer1", ALLOW>>, <<"developer2", ALLOW>>}
    ELSE {}

\* BranchSecurity(branch_name) with the permissions apply_branch_security sets
BranchSecurity(branch_name) ==
    [present |-> TRUE, is_locked |-> FALSE, lock_reason |-> "",
     path_filters |-> <<>>, user_permissions |-> UserPermissions(branch_name)]

\* apply_branch_security replaces the branch's security by a fresh object
apply_branch_security(brs, branch_name) ==
    IF branch_name \notin DOMAIN brs
    THEN [ret |-> FALSE, branches |-> brs]
    ELSE [ret |-> TRUE,
          branches |-> [brs EXCEPT ![branch_name].security =
                                        BranchSecurity(branch_name)]]

\* lock_branch without the permission check
lock_branch_noperm(us, cur, brs, branch_name, reason) ==
    IF branch_name \in DOMAIN brs /\ brs[branch_name].security.present
    THEN [ret |-> TRUE,
          branches |-> [brs EXCEPT
              ![branch_name].security.is_locked = TRUE,
              ![branch_name].security.lock_reason = reason]]
    ELSE [ret |-> FALSE, branches |-> brs]

lock_branch(us, cur, brs, branch_name, reason) ==
    IF ~(cur.present /\ check_permission(us, cur.name, PROJECT_ADMIN))
    THEN [ret |-> FALSE, branches |-> brs]
    ELSE IF branch_name \in DOMAIN brs /\ brs[branch_name].security.present
         THEN [ret |-> TRUE,
               branches |-> [brs EXCEPT
                   ![branch_name].security.is_locked = TRUE,
                   ![branch_name].security.lock_reason = reason]]
         ELSE [ret |-> FALSE, branches |-> brs]

apply_branch_filters(brs, branch_name, path_filters) ==
    IF branch_name \in DOMAIN brs /\ brs[branch_name].security.present
    THEN [ret |-> TRUE,
          branches |-> [brs EXCEPT
              ![branch_name].security.path_filters = path_filters]]
    ELSE [ret |-> FALSE, branches |-> brs]

-----------------------------------------------------------------------------
(* AzureDevOpsSimulator: pull requests *)

\* _can_create_pr_to_main: the GenericRead permission of the current user on
\* main when main has security and lists the user, True otherwise
_can_create_pr_to_main(cur, brs) ==
    IF Falsy(cur)
    THEN FALSE
    ELSE IF "main" \in DOMAIN brs /\ brs["main"].security.present
              /\ \E e \in brs["main"].security.user_permissions : e[1] = cur.name
         THEN \E e \in brs["main"].security.user_permissions :
                  e[1] = cur.name /\ e[2] = ALLOW
         ELSE TRUE

AutoReviewers_anyPolicy(brs, target_branch) ==
    IF target_branch \in DOMAIN brs /\ brs[target_branch].policy.present
       /\ target_branch = "main"
    THEN <<"admin">>
    ELSE <<>>

\* the reviewers create_pull_request assigns from the target's policy
AutoReviewers(brs, target_branch) ==
    IF target_branch \in DOMAIN brs /\ brs[target_branch].policy.present
       /\ brs[target_branch].policy.require_code_review
       /\ target_branch = "main"
    THEN <<"admin">>
    ELSE <<>>

PullRequest_authorReviews(source_branch, target_branch, author, pr_work_items, reviewers) ==
    [source_branch |-> source_branch, target_branch |-> target_branch,
     author |-> author, status |-> ACTIVE,
     reviewers |-> Append(reviewers, author),
     approvals |-> {}, work_items |-> pr_work_items, completed_date |-> 0]

\* PullRequest(id, title, source_branch, target_branch, author, ...)
PullRequest(source_branch, target_branch, author, pr_work_items, reviewers) ==
    [source_branch |-> source_branch, target_branch |-> target_branch,
     author |-> author, status |-> ACTIVE, reviewers |-> reviewers,
     approvals |-> {}, work_items |-> pr_work_items, completed_date |-> 0]

\* create_pull_request: returns the new id, or None when nothing is created.
\* lists holds the list objects; pr_work_items is the work_items argument,
\* 0 for None or the reference of a list object of lists.  The pull request
\* holds `work_items or []`: the caller's own list object when it is not
\* empty, a new empty list otherwise.
create_pull_request(cur, brs, prs, lists, source_branch, target_branch, pr_work_items) ==
    IF Falsy(cur)
    THEN [ret |-> None, pull_requests |-> prs, work_item_lists |-> lists]
    ELSE IF target_branch = "main" /\ ~_can_create_pr_to_main(cur, brs)
    THEN [ret |-> None, pull_requests |-> prs, work_item_lists |-> lists]
    ELSE LET pr_id == PrIds[Cardinality(DOMAIN prs) + 1]
             fresh == pr_work_items = 0 \/ lists[pr_work_items] = <<>>
             held == IF fresh THEN Len(lists) + 1 ELSE pr_work_items
         IN  [ret |-> pr_id,
              pull_requests |-> prs @@ (pr_id :>
                  PullRequest(source_branch, target_branch, cur.name,
                              held,
                              AutoReviewers(brs, target_branch))),
              work_item_lists |->
                  IF fresh THEN Append(lists, <<>>) ELSE lists]

approve_pull_request_any(cur, prs, pr_id) ==
    IF Falsy(cur) \/ pr_id \notin DOMAIN prs
    THEN [ret |-> FALSE, pull_requests |-> prs]
    ELSE [ret |-> TRUE,
          pull_requests |-> [prs EXCEPT ![pr_id].approvals = @ \cup {cur.name}]]

approve_pull_request_author(cur, prs, pr_id) ==
    IF Falsy(cur) \/ pr_id \notin DOMAIN prs
    THEN [ret |-> FALSE, pull_requests |-> prs]
    ELSE IF cur.name \in Range(prs[pr_id].reviewers) \/ cur.name = prs[pr_id].author
    THEN [ret |-> TRUE,
          pull_requests |-> [prs EXCEPT ![pr_id].approvals = @ \cup {cur.name}]]
    ELSE [ret |-> FALSE, pull_requests |-> prs]

\* approve_pull_request: approvals.add(current_user) for a listed reviewer
approve_pull_request(cur, prs, pr_id) ==
    IF Falsy(cur)
    THEN [ret |-> FALSE, pull_requests |-> prs]
    ELSE IF pr_id \notin DOMAIN prs
    THEN [ret |-> FALSE, pull_requests |-> prs]
    ELSE IF cur.name \in Range(prs[pr_id].reviewers)
    THEN [ret |-> TRUE,
          pull_requests |-> [prs EXCEPT ![pr_id].approvals = @ \cup {cur.name}]]
    ELSE [ret |-> FALSE, pull_requests |-> prs]

\* the entry complete_pull_request appends to the target's commits
MergeEntry(pr_id) == <<"Merged PR", pr_id>>

complete_pull_request_noapprovals(us, cur, brs, prs, now, pr_id) ==
    LET failed == [ret |-> FALSE, pull_requests |-> prs, branches |-> brs]
    IN
    IF Falsy(cur) \/ pr_id \notin DOMAIN prs
    THEN failed
    ELSE IF ~check_permission(us, cur.name, PROJECT_ADMIN)
            /\ prs[pr_id].target_branch = "main"
    THEN failed
    ELSE [ret |-> TRUE,
          pull_requests |-> [prs EXCEPT ![pr_id].status = COMPLETED,
                                        ![pr_id].completed_date = now],
          branches |->
              IF prs[pr_id].target_branch \in DOMAIN brs
              THEN [brs EXCEPT ![prs[pr_id].target_branch].commits =
                                   Append(@, MergeEntry(pr_id))]
              ELSE brs]

complete_pull_request_nodate(us, cur, brs, prs, now, pr_id) ==
    LET failed == [ret |-> FALSE, pull_requests |-> prs, branches |-> brs]
    IN
    IF Falsy(cur) \/ pr_id \notin DOMAIN prs
    THEN failed
    ELSE IF ~check_permission(us, cur.name, PROJECT_ADMIN)
            /\ prs[pr_id].target_branch = "main"
    THEN failed
    ELSE IF Cardinality(prs[pr_id].approvals) < Len(prs[pr_id].reviewers)
    THEN failed
    ELSE [ret |-> TRUE,
          pull_requests |-> [prs EXCEPT ![pr_id].status = COMPLETED],
          branches |->
              IF prs[pr_id].target_branch \in DOMAIN brs
              THEN [brs EXCEPT ![prs[pr_id].target_branch].commits =
                                   Append(@, MergeEntry(pr_id))]
              ELSE brs]

\* complete_pull_request; now is the value datetime.now() returns
complete_pull_request(us, cur, brs, prs, now, pr_id) ==
    LET failed == [ret |-> FALSE, pull_requests |-> prs, branches |-> brs]
    IN
    IF Falsy(cur)
    THEN failed
    ELSE IF pr_id \notin DOMAIN prs
    THEN failed
    ELSE IF ~check_permission(us, cur.name, PROJECT_ADMIN)
            /\ prs[pr_id].target_branch = "main"
    THEN failed
    ELSE IF Cardinality(prs[pr_id].approvals) < Len(prs[pr_id].reviewers)
    THEN failed
    ELSE [ret |-> TRUE,
          pull_requests |-> [prs EXCEPT ![pr_id].status = COMPLETED,
                                        ![pr_id].completed_date = now],
          branches |->
              IF prs[pr_id].target_branch \in DOMAIN brs
              THEN [brs EXCEPT ![prs[pr_id].target_branch].commits =
                                   Append(@, MergeEntry(pr_id))]
              ELSE brs]

-----------------------------------------------------------------------------
(* AzureDevOpsSimulator: work items *)

\* create_work_item: a fresh id; assigned_to is stored unchecked
create_work_item(wis, assigned_to) ==
    wis @@ (WorkItemIds[Cardinality(DOMAIN wis) + 1] :> assigned_to)

\* link_work_item_to_pr appends to the list object the pull request holds,
\* and so to the work_items of every pull request that holds the same object
link_work_item_to_pr(wis, prs, lists, work_item_id, pr_id) ==
    IF work_item_id \in DOMAIN wis /\ pr_id \in DOMAIN prs
    THEN [ret |-> TRUE,
          work_item_lists |-> [lists EXCEPT ![prs[pr_id].work_items] =
                                                Append(@, work_item_id)]]
    ELSE [ret |-> FALSE, work_item_lists |-> lists]

-----------------------------------------------------------------------------
(* ReleaseApprovalManager *)

PENDING == "Pending"
APPROVED == "Approved"
REJECTED == "Rejected"

EnvInputs == {"Production", "Ghost"}

ApproverInputs == {"lead@company.com", "manager@company.com"}

Intruder == "intruder@company.com"

TypeInputs == {"pre", "post", "manual"}

DeploymentInputs == {"deploy-12345"}

\* "approved" is a decision that is not exactly "Approved"
DecisionInputs == {APPROVED, REJECTED, "approved"}

\* f"approval-{hashlib.md5(f'{deployment_id}-{approval_type}'.encode())
\*                 .hexdigest()[:8]}" on the inputs of the model
RequestId(deployment_id, approval_type) ==
    CASE deployment_id = "deploy-12345" /\ approval_type = "pre" ->
             "approval-e1561c1c"
      [] deployment_id = "deploy-12345" /\ approval_type = "post" ->
             "approval-2871ead5"
      [] deployment_id = "deploy-12345" /\ approval_type = "manual" ->
             "approval-cd18d2f5"
      [] deployment_id = "deploy-67890" /\ approval_type = "pre" ->
             "approval-d996fe7c"
      [] deployment_id = "deploy-67890" /\ approval_type = "post" ->
             "approval-0ad301d4"
      [] deployment_id = "deploy-67890" /\ approval_type = "manual" ->
             "approval-b0f98557"

RequestIdInputs ==
    {RequestId(d, t) : d \in DeploymentInputs, t \in TypeInputs}

\* create_environment: a new dict with two new empty approver lists; the
\* lists are objects on the heap and the dict holds references to them
create_environment(envs, hp, name) ==
    LET entry == [pre_deployment_approvers |-> Len(hp) + 1,
                  post_deployment_approvers |-> Len(hp) + 2]
    IN  [environments |-> IF name \in DOMAIN envs
                          THEN [envs EXCEPT ![name] = entry]
                          ELSE envs @@ (name :> entry),
         heap |-> hp \o << <<>>, <<>> >>]

\* add_approver appends to the environment's list object, in place
add_approver(envs, hp, environment, approver_email, approval_type) ==
    IF environment \in DOMAIN envs
    THEN IF approval_type = "pre"
         THEN [hp EXCEPT ![envs[environment].pre_deployment_approvers] =
                             Append(@, approver_email)]
         ELSE IF approval_type = "post"
         THEN [hp EXCEPT ![envs[environment].post_deployment_approvers] =
                             Append(@, approver_email)]
         ELSE hp
    ELSE hp

\* request_approval: the request refers to the environment's own list
\* object (no copy); any other approval_type gets a new empty list.
\* self.environments[environment] raises KeyError for an unknown name.
request_approval(envs, hp, reqs, environment, deployment_id, approval_type) ==
    LET request_id == RequestId(deployment_id, approval_type)
        lookup == approval_type \in {"pre", "post"}
        approvers == IF approval_type = "pre"
                     THEN envs[environment].pre_deployment_approvers
                     ELSE IF approval_type = "post"
                     THEN envs[environment].post_deployment_approvers
                     ELSE Len(hp) + 1
        approval_request == [id |-> request_id,
                             deployment_id |-> deployment_id,
                             environment |-> environment,
                             type |-> approval_type,
                             approvers |-> approvers,
                             status |-> PENDING,
                             responses |-> <<>>]
    IN  IF lookup /\ environment \notin DOMAIN envs
        THEN [ret |-> "KeyError", heap |-> hp, approval_requests |-> reqs]
        ELSE [ret |-> request_id,
              heap |-> IF lookup THEN hp ELSE Append(hp, <<>>),
              approval_requests |-> Append(reqs, approval_request)]

\* the first request process_approval acts on: matching id and approver
\* listed; 0 when the loop ends without one
MatchingRequest(hp, reqs, request_id, approver) ==
    LET hits == {i \in DOMAIN reqs :
                    /\ reqs[i].id = request_id
                    /\ approver \in Range(hp[reqs[i].approvers])}
    IN  IF hits = {} THEN 0
        ELSE CHOOSE i \in hits : \A j \in hits : i <= j

\* responses[approver] = {'decision': decision, ...}
Respond(responses, approver, decision) ==
    IF approver \in DOMAIN responses
    THEN [responses EXCEPT ![approver] = decision]
    ELSE responses @@ (approver :> decision)

\* the status after a response: re-evaluated only when the number of
\* responses equals the length of the approver list
Resolve(status, responses, approvers) ==
    IF Cardinality(DOMAIN responses) = Len(approvers)
    THEN IF \A a \in DOMAIN responses : responses[a] = APPROVED
         THEN APPROVED
         ELSE REJECTED
    ELSE status

process_approval_latest(hp, reqs, request_id, approver, decision) ==
    LET i == MatchingRequest(hp, reqs, request_id, approver)
    IN  IF i = 0
        THEN [ret |-> FALSE, approval_requests |-> reqs]
        ELSE LET responses == Respond(reqs[i].responses, approver, decision)
             IN  [ret |-> TRUE,
                  approval_requests |-> [reqs EXCEPT
                      ![i].responses = responses,
                      ![i].status =
                          IF Cardinality(DOMAIN responses)
                                 = Len(hp[reqs[i].approvers])
                          THEN IF decision = APPROVED
                               THEN APPROVED ELSE REJECTED
                          ELSE reqs[i].status]]

process_approval_anyone(hp, reqs, request_id, approver, decision) ==
    LET hits == {i \in DOMAIN reqs : reqs[i].id = request_id}
    IN  IF hits = {}
        THEN [ret |-> FALSE, approval_requests |-> reqs]
        ELSE LET i == CHOOSE i \in hits : \A j \in hits : i <= j
                 responses == Respond(reqs[i].responses, approver, decision)
             IN  [ret |-> TRUE,
                  approval_requests |-> [reqs EXCEPT
                      ![i].responses = responses,
                      ![i].status = Resolve(reqs[i].status, responses,
                                            hp[reqs[i].approvers])]]

process_approval(hp, reqs, request_id, approver, decision) ==
    LET i == MatchingRequest(hp, reqs, request_id, approver)
    IN  IF i = 0
        THEN [ret |-> FALSE, approval_requests |-> reqs]
        ELSE LET responses == Respond(reqs[i].responses, approver, decision)
             IN  [ret |-> TRUE,
                  approval_requests |-> [reqs EXCEPT
                      ![i].responses = responses,
                      ![i].status = Resolve(reqs[i].status, responses,
                                            hp[reqs[i].approvers])]]

-----------------------------------------------------------------------------
(* HPASimulator *)

\* HPASimulator(min_replicas, max_replicas, target_cpu)
HPASimulator(min_replicas, max_replicas, target_cpu) ==
    [min_replicas |-> min_replicas, max_replicas |-> max_replicas,
     target_cpu |-> target_cpu, current_replicas |-> min_replicas,
     cpu_usage |-> <<>>, replica_history |-> <<>>]

\* constructor arguments: the defaults, and ranges small enough for both
\* ends to be reached, with a target inside the range of the readings of
\* the first minutes
HPAInputs == {<<2, 10, 70>>, <<1, 2, 45>>, <<2, 2, 45>>, <<1, 3, 45>>}

\* random.uniform(a, b) is any real number of [a, b].  The readings are
\* only ever compared with target_cpu and target_cpu - 10, and every
\* target_cpu of HPAInputs is a multiple of 5: a reading compares with both
\* as the grid point of its interval does, a multiple k of 5 standing for
\* itself and k + 2 for the readings strictly between k and k + 5.
Uniform(a, b) == {cpu \in a..b : cpu % 5 \in {0, 2}}

\* the readings of the given minute of a call of simulate_load
CpuReadings(minute) ==
    IF minute < 10 THEN Uniform(30, 50)
    ELSE IF minute < 20 THEN Uniform(80, 95)
    ELSE Uniform(40, 60)

\* no call of simulate_load is running
NoLoop == [minute |-> 0, duration_minutes |-> 0]

Min(a, b) == IF a < b THEN a ELSE b

Max(a, b) == IF a > b THEN a ELSE b

\* one iteration of the loop of simulate_load that ignores max_replicas
simulate_load_minute_unbounded(h, cpu) ==
    LET replicas ==
            IF cpu > h.target_cpu
            THEN h.current_replicas + 1
            ELSE IF cpu < h.target_cpu - 10
                    /\ h.current_replicas > h.min_replicas
                 THEN Max(h.current_replicas - 1, h.min_replicas)
                 ELSE h.current_replicas
    IN  [h EXCEPT !.cpu_usage = Append(@, cpu),
                  !.current_replicas = replicas,
                  !.replica_history = Append(@, replicas)]

\* one iteration of the loop of simulate_load, for the reading cpu
simulate_load_minute(h, cpu) ==
    LET replicas ==
            IF cpu > h.target_cpu /\ h.current_replicas < h.max_replicas
            THEN Min(h.current_replicas + 1, h.max_replicas)
            ELSE IF cpu < h.target_cpu - 10
                    /\ h.current_replicas > h.min_replicas
                 THEN Max(h.current_replicas - 1, h.min_replicas)
                 ELSE h.current_replicas
    IN  [h EXCEPT !.cpu_usage = Append(@, cpu),
                  !.current_replicas = replicas,
                  !.replica_history = Append(@, replicas)]

-----------------------------------------------------------------------------
(* Initial state: AzureDevOpsSimulator() after _initialize_default_data,   *)
(* ReleaseApprovalManager() after __init__                                 *)

InitUsers ==
    ("admin" :> {PROJECT_ADMIN, BUILD_ADMIN}) @@ ("developer1" :> {CONTRIBUTOR})
    @@ ("developer2" :> {CONTRIBUTOR}) @@ ("reader" :> {READER})

InitGroups ==
    ("Developers" :> {"developer1", "developer2"}) @@ ("Admins" :> {"admin"})

InitBranches ==
    ("main" :> [policy |-> BranchPolicy(TRUE),
                security |-> BranchSecurity("main"),
                commits |-> <<>>])
    @@ ("develop" :> Branch) @@ ("feature/user-auth" :> Branch)

InitWorkItems ==
    ("wi1" :> "developer1") @@ ("wi2" :> "developer1") @@ ("wi3" :> "developer2")

Init ==
    /\ users = InitUsers
    /\ groups = InitGroups
    /\ branches = InitBranches
    /\ pull_requests = <<>>
    /\ work_items = InitWorkItems
    /\ work_item_lists = <<>>
    /\ current_user = NoUser
    /\ clock = 0
    /\ pipelines = <<>>
    /\ environments = <<>>
    /\ heap = <<>>
    /\ approval_requests = <<>>
    /\ hpa = HPASimulator(2, 10, 70)
    /\ hpa_loop = NoLoop
    /\ caller = [bounded |-> FALSE, calls |-> 0]
    /\ last = Call("__init__", None, None)

\* The same objects, used by a caller that counts its calls.
InitLife ==
    /\ users = InitUsers
    /\ groups = InitGroups
    /\ branches = InitBranches
    /\ pull_requests = <<>>
    /\ work_items = InitWorkItems
    /\ work_item_lists = <<>>
    /\ current_user = NoUser
    /\ clock = 0
    /\ pipelines = <<>>
    /\ environments = <<>>
    /\ heap = <<>>
    /\ approval_requests = <<>>
    /\ hpa = HPASimulator(2, 10, 70)
    /\ hpa_loop = NoLoop
    /\ caller = [bounded |-> TRUE, calls |-> 0]
    /\ last = Call("__init__", None, None)

\* The same objects, with the HPASimulator built from any of HPAInputs.
InitHPA ==
    /\ users = InitUsers
    /\ groups = InitGroups
    /\ branches = InitBranches
    /\ pull_requests = <<>>
    /\ work_items = InitWorkItems
    /\ work_item_lists = <<>>
    /\ current_user = NoUser
    /\ clock = 0
    /\ pipelines = <<>>
    /\ environments = <<>>
    /\ heap = <<>>
    /\ approval_requests = <<>>
    /\ \E args \in HPAInputs : hpa = HPASimulator(args[1], args[2], args[3])
    /\ hpa_loop = NoLoop
    /\ caller = [bounded |-> FALSE, calls |-> 0]
    /\ last = Call("HPASimulator", None, None)

-----------------------------------------------------------------------------
(* Actions of AzureDevOpsSimulator: one per public method *)

\* Every action is one call.  A caller that counts its calls makes at most
\* MaxCalls of them; the others call for as long as the other bounds allow.
CountCall ==
    IF caller.bounded
    THEN caller.calls < MaxCalls /\ caller' = [caller EXCEPT !.calls = @ + 1]
    ELSE UNCHANGED caller


CreateUser ==
    /\ \E in \in CreateUserInputs :
          /\ users' = create_user(users, in[1], in[2])
          /\ last' = Call("create_user", in[1], in[1])
    /\ CountCall
    /\ UNCHANGED <<groups, branches, pull_requests, work_items, current_user,
                   clock, pipelines, work_item_lists, ramVars, hpa, hpa_loop>>

Login ==
    /\ \E username \in UserInputs :
          LET r == login(users, current_user, username)
          IN  /\ current_user' = r.current_user
              /\ last' = Call("login", username, Bool(r.ret))
    /\ CountCall
    /\ UNCHANGED <<users, groups, branches, pull_requests, work_items, clock,
                   pipelines, work_item_lists, ramVars, hpa, hpa_loop>>

CreateGroup ==
    /\ \E name \in GroupInputs :
          /\ groups' = create_group(groups, name)
          /\ last' = Call("create_group", name, name)
    /\ CountCall
    /\ UNCHANGED <<users, branches, pull_requests, work_items, current_user,
                   clock, pipelines, work_item_lists, ramVars, hpa, hpa_loop>>

AddUserToGroup ==
    /\ \E username \in UserInputs, group_name \in GroupInputs :
          LET r == add_user_to_group(users, groups, username, group_name)
          IN  /\ groups' = r.groups
              /\ last' = Call("add_user_to_group", username, Bool(r.ret))
    /\ CountCall
    /\ UNCHANGED <<users, branches, pull_requests, work_items, current_user,
                   clock, pipelines, work_item_lists, ramVars, hpa, hpa_loop>>

CreateBranch ==
    /\ \E name \in {"main"} :
          /\ branches' = create_branch(branches, name)
          /\ last' = Call("create_branch", name, name)
    /\ CountCall
    /\ UNCHANGED <<users, groups, pull_requests, work_items, current_user,
                   clock, pipelines, work_item_lists, ramVars, hpa, hpa_loop>>

ApplyBranchPolicy ==
    /\ \E branch_name \in {"main", GhostBranch}, review \in BOOLEAN :
          LET r == apply_branch_policy(branches, branch_name,
                                       BranchPolicy(review))
          IN  /\ branches' = r.branches
              /\ last' = Call("apply_branch_policy", branch_name, Bool(r.ret))
    /\ CountCall
    /\ UNCHANGED <<users, groups, pull_requests, work_items, current_user,
                   clock, pipelines, work_item_lists, ramVars, hpa, hpa_loop>>

ApplyBranchSecurity ==
    /\ \E branch_name \in {"main", GhostBranch} :
          LET r == apply_branch_security(branches, branch_name)
          IN  /\ branches' = r.branches
              /\ last' = Call("apply_branch_security", branch_name,
                              Bool(r.ret))
    /\ CountCall
    /\ UNCHANGED <<users, groups, pull_requests, work_items, current_user,
                   clock, pipelines, work_item_lists, ramVars, hpa, hpa_loop>>

LockBranch ==
    /\ \E branch_name \in BranchInputs :
          LET r == lock_branch(users, current_user, branches, branch_name,
                               "Preparing for release")
          IN  /\ branches' = r.branches
              /\ last' = Call("lock_branch", branch_name, Bool(r.ret))
    /\ CountCall
    /\ UNCHANGED <<users, groups, pull_requests, work_items, current_user,
                   clock, pipelines, work_item_lists, ramVars, hpa, hpa_loop>>

ApplyBranchFilters ==
    /\ \E branch_name \in BranchInputs :
          LET r == apply_branch_filters(branches, branch_name, <<"*.py">>)
          IN  /\ branches' = r.branches
              /\ last' = Call("apply_branch_filters", branch_name, Bool(r.ret))
    /\ CountCall
    /\ UNCHANGED <<users, groups, pull_requests, work_items, current_user,
                   clock, pipelines, work_item_lists, ramVars, hpa, hpa_loop>>

CreatePullRequest ==
    /\ Cardinality(DOMAIN pull_requests) < MaxPRs
    /\ \E in \in PrCallInputs :
       \E pr_work_items \in WorkItemsArguments(in[3]) :
          \* the list objects at the call: a new list of the caller is there
          LET given == IF pr_work_items > Len(work_item_lists)
                       THEN Append(work_item_lists, in[3])
                       ELSE work_item_lists
              r == create_pull_request(current_user, branches, pull_requests,
                                       given, in[1], in[2], pr_work_items)
          IN  /\ pull_requests' = r.pull_requests
              \* a list that no pull request holds is not kept
              /\ work_item_lists' = IF r.ret = None THEN work_item_lists
                                    ELSE r.work_item_lists
              /\ last' = Call("create_pull_request", in[2], r.ret)
    /\ CountCall
    /\ UNCHANGED <<users, groups, branches, work_items, current_user, clock,
                   pipelines, ramVars, hpa, hpa_loop>>

ApprovePullRequest ==
    /\ \E pr_id \in PrInputs :
          LET r == approve_pull_request(current_user, pull_requests, pr_id)
          IN  /\ pull_requests' = r.pull_requests
              /\ last' = Call("approve_pull_request", pr_id, Bool(r.ret))
    /\ CountCall
    /\ UNCHANGED <<users, groups, branches, work_items, current_user, clock,
                   pipelines, work_item_lists, ramVars, hpa, hpa_loop>>

CompletePullRequest ==
    /\ clock < MaxClock
    /\ \E pr_id \in PrInputs :
          LET r == complete_pull_request(users, current_user, branches,
                                         pull_requests, clock + 1, pr_id)
          IN  /\ pull_requests' = r.pull_requests
              /\ branches' = r.branches
              /\ clock' = IF r.ret THEN clock + 1 ELSE clock
              /\ last' = Call("complete_pull_request", pr_id, Bool(r.ret))
    /\ CountCall
    /\ UNCHANGED <<users, groups, work_items, current_user, pipelines,
                   work_item_lists, ramVars, hpa, hpa_loop>>

CreateWorkItem ==
    /\ Cardinality(DOMAIN work_items) < MaxWorkItems
    /\ \E assigned_to \in {"developer1", GhostUser} :
          /\ work_items' = create_work_item(work_items, assigned_to)
          /\ last' = Call("create_work_item", assigned_to,
                          WorkItemIds[Cardinality(DOMAIN work_items) + 1])
    /\ CountCall
    /\ UNCHANGED <<users, groups, branches, pull_requests, current_user,
                   clock, pipelines, work_item_lists, ramVars, hpa, hpa_loop>>

LinkWorkItemToPr ==
    /\ \A i \in DOMAIN work_item_lists : Len(work_item_lists[i]) < MaxLinks
    /\ \E work_item_id \in {"wi1", GhostWorkItem}, pr_id \in PrInputs :
          LET r == link_work_item_to_pr(work_items, pull_requests,
                                        work_item_lists, work_item_id, pr_id)
          IN  /\ work_item_lists' = r.work_item_lists
              /\ last' = Call("link_work_item_to_pr", pr_id, Bool(r.ret))
    /\ CountCall
    /\ UNCHANGED <<users, groups, branches, pull_requests, work_items,
                   current_user, clock, pipelines, ramVars, hpa, hpa_loop>>

-----------------------------------------------------------------------------
(* AzureDevOpsSimulator: pipelines *)

PIPELINE_PENDING == "Pending"
PIPELINE_RUNNING == "Running"
PIPELINE_SUCCEEDED == "Succeeded"

PipelineIds == <<"pl1", "pl2", "pl3", "pl4">>
GhostPipeline == "ghost-pl"
PipelineInputs == {"pl1", "pl2", GhostPipeline}

\* BuildTrigger: the fields the demonstration sets; the defaults of the
\* dataclass are an empty filter list and continuous integration on.
BuildTrigger(branch_filters, continuous_integration) ==
    [branch_filters |-> branch_filters,
     continuous_integration |-> continuous_integration]

TriggerInputs == {BuildTrigger(<<"main">>, FALSE)}

Gate(name, is_enabled, approval_required, approvers) ==
    [name |-> name, is_enabled |-> is_enabled,
     approval_required |-> approval_required, approvers |-> approvers]

GateInputs == {Gate("Security Scan", TRUE, FALSE, <<>>),
               Gate("Manual Approval", TRUE, TRUE, <<"admin">>)}

\* Pipeline(...) with the defaults of the dataclass; last_run = 0 is None.
Pipeline ==
    [triggers |-> BuildTrigger(<<>>, TRUE), gates |-> <<>>,
     status |-> PIPELINE_PENDING, last_run |-> 0]

create_pipeline(pls) ==
    LET pipeline_id == PipelineIds[Cardinality(DOMAIN pls) + 1]
    IN  [ret |-> pipeline_id, pipelines |-> pls @@ (pipeline_id :> Pipeline)]

apply_build_triggers(pls, pipeline_id, triggers) ==
    IF pipeline_id \in DOMAIN pls
    THEN [ret |-> TRUE,
          pipelines |-> [pls EXCEPT ![pipeline_id].triggers = triggers]]
    ELSE [ret |-> FALSE, pipelines |-> pls]

add_pipeline_gate(pls, pipeline_id, gate) ==
    IF pipeline_id \in DOMAIN pls
    THEN [ret |-> TRUE,
          pipelines |-> [pls EXCEPT ![pipeline_id].gates = Append(@, gate)]]
    ELSE [ret |-> FALSE, pipelines |-> pls]

\* run_pipeline that stops at an enabled gate waiting for its approvers
run_pipeline_waits(pls, now, pipeline_id) ==
    IF pipeline_id \notin DOMAIN pls
    THEN [ret |-> FALSE, pipelines |-> pls]
    ELSE LET running == [pls EXCEPT ![pipeline_id].status = PIPELINE_RUNNING,
                                    ![pipeline_id].last_run = now]
             gates == pls[pipeline_id].gates
             waits == \E i \in DOMAIN gates :
                         /\ gates[i].is_enabled
                         /\ gates[i].approval_required
                         /\ gates[i].approvers # <<>>
         IN  IF waits
             THEN [ret |-> FALSE, pipelines |-> running]
             ELSE [ret |-> TRUE,
                   pipelines |-> [running EXCEPT
                                     ![pipeline_id].status = PIPELINE_SUCCEEDED]]

\* The gates are only printed; the run always ends in SUCCEEDED.
run_pipeline(pls, now, pipeline_id) ==
    IF pipeline_id \notin DOMAIN pls
    THEN [ret |-> FALSE, pipelines |-> pls]
    ELSE LET running == [pls EXCEPT ![pipeline_id].status = PIPELINE_RUNNING,
                                    ![pipeline_id].last_run = now]
         IN  [ret |-> TRUE,
              pipelines |-> [running EXCEPT
                                ![pipeline_id].status = PIPELINE_SUCCEEDED]]

CreatePipeline ==
    /\ Cardinality(DOMAIN pipelines) < MaxPipelines
    /\ LET r == create_pipeline(pipelines)
       IN  /\ pipelines' = r.pipelines
           /\ last' = Call("create_pipeline", "Main CI/CD Pipeline", r.ret)
    /\ CountCall
    /\ UNCHANGED <<users, groups, branches, pull_requests, work_items,
                   current_user, clock, work_item_lists, ramVars, hpa, hpa_loop>>

ApplyBuildTriggers ==
    /\ \E pipeline_id \in PipelineInputs, triggers \in TriggerInputs :
          LET r == apply_build_triggers(pipelines, pipeline_id, triggers)
          IN  /\ pipelines' = r.pipelines
              /\ last' = Call("apply_build_triggers", pipeline_id, Bool(r.ret))
    /\ CountCall
    /\ UNCHANGED <<users, groups, branches, pull_requests, work_items,
                   current_user, clock, work_item_lists, ramVars, hpa, hpa_loop>>

AddPipelineGate ==
    /\ \E pipeline_id \in PipelineInputs, gate \in GateInputs :
          /\ pipeline_id \in DOMAIN pipelines
                => Len(pipelines[pipeline_id].gates) < MaxGates
          /\ LET r == add_pipeline_gate(pipelines, pipeline_id, gate)
             IN  /\ pipelines' = r.pipelines
                 /\ last' = Call("add_pipeline_gate", pipeline_id, Bool(r.ret))
    /\ CountCall
    /\ UNCHANGED <<users, groups, branches, pull_requests, work_items,
                   current_user, clock, work_item_lists, ramVars, hpa, hpa_loop>>

RunPipeline ==
    /\ clock < MaxClock
    /\ \E pipeline_id \in PipelineInputs :
          LET r == run_pipeline(pipelines, clock + 1, pipeline_id)
          IN  /\ pipelines' = r.pipelines
              /\ clock' = IF r.ret THEN clock + 1 ELSE clock
              /\ last' = Call("run_pipeline", pipeline_id, Bool(r.ret))
    /\ CountCall
    /\ UNCHANGED <<users, groups, branches, pull_requests, work_items,
                   current_user, work_item_lists, ramVars, hpa, hpa_loop>>

-----------------------------------------------------------------------------
(* Specifications of AzureDevOpsSimulator *)

\* The pull request workflow: the methods that write users, current_user,
\* a branch's policy or commits, or a pull request's status, reviewers,
\* approvals or completed_date.  The other methods write none of these:
\* groups (NextGroups), branch security, locks and filters (NextBranch),
\* work items and their links.
Next ==
    \/ CreateUser
    \/ Login
    \/ CreateBranch
    \/ ApplyBranchPolicy
    \/ CreatePullRequest
    \/ ApprovePullRequest
    \/ CompletePullRequest

Spec == Init /\ [][Next]_vars

\* Users and groups: the methods that read or write users and groups.
NextGroups ==
    \/ CreateUser
    \/ Login
    \/ CreateGroup
    \/ AddUserToGroup

SpecGroups == Init /\ [][NextGroups]_vars

\* Branch administration and merges: security, locks, filters, and the
\* pull requests that merge into the branches.
NextBranch ==
    \/ CreateUser
    \/ Login
    \/ CreateBranch
    \/ ApplyBranchSecurity
    \/ LockBranch
    \/ ApplyBranchFilters
    \/ CreatePullRequest
    \/ CompletePullRequest

SpecBranch == Init /\ [][NextBranch]_vars

\* Work items and their links to pull requests.
NextWork ==
    \/ Login
    \/ CreatePullRequest
    \/ CreateWorkItem
    \/ LinkWorkItemToPr

SpecWork == Init /\ [][NextWork]_vars

\* Pipelines.
NextPipe ==
    \/ CreatePipeline
    \/ ApplyBuildTriggers
    \/ AddPipelineGate
    \/ RunPipeline

SpecPipe == Init /\ [][NextPipe]_vars

-----------------------------------------------------------------------------
(* Actions of ReleaseApprovalManager *)

\* number of e-mails add_approver has appended to the lists so far
Appended(hp, n) == IF n = 0 THEN 0 ELSE Len(hp[n]) + Appended(hp, n - 1)

CreateEnvironment ==
    /\ Len(heap) < 2 * MaxEnvCreations
    /\ \E name \in {"Production"} :
          LET r == create_environment(environments, heap, name)
          IN  /\ environments' = r.environments
              /\ heap' = r.heap
              /\ last' = Call("create_environment", name, None)
    /\ CountCall
    /\ UNCHANGED <<approval_requests, devopsVars, hpa, hpa_loop>>

AddApprover ==
    /\ Appended(heap, Len(heap)) < MaxAppends
    /\ \E environment \in EnvInputs, approver_email \in ApproverInputs,
          approval_type \in TypeInputs :
          /\ heap' = add_approver(environments, heap, environment,
                                  approver_email, approval_type)
          /\ last' = Call("add_approver", approver_email, None)
    /\ CountCall
    /\ UNCHANGED <<environments, approval_requests, devopsVars, hpa, hpa_loop>>

RequestApproval ==
    /\ Len(approval_requests) < MaxRequests
    /\ \E environment \in EnvInputs, deployment_id \in DeploymentInputs,
          approval_type \in TypeInputs :
          LET r == request_approval(environments, heap, approval_requests,
                                    environment, deployment_id, approval_type)
          IN  /\ heap' = r.heap
              /\ approval_requests' = r.approval_requests
              /\ last' = Call("request_approval", environment, r.ret)
    /\ CountCall
    /\ UNCHANGED <<environments, devopsVars, hpa, hpa_loop>>

ProcessApproval ==
    /\ \E request_id \in RequestIdInputs \cup {"approval-00000000"},
          approver \in ApproverInputs \cup {Intruder},
          decision \in DecisionInputs :
          LET r == process_approval(heap, approval_requests, request_id,
                                    approver, decision)
          IN  /\ approval_requests' = r.approval_requests
              /\ last' = Call("process_approval", request_id, Bool(r.ret))
    /\ CountCall
    /\ UNCHANGED <<environments, heap, devopsVars, hpa, hpa_loop>>

NextRAM ==
    \/ CreateEnvironment
    \/ AddApprover
    \/ RequestApproval
    \/ ProcessApproval

SpecRAM == Init /\ [][NextRAM]_vars

-----------------------------------------------------------------------------
(* Actions of HPASimulator *)

\* A call simulate_load(duration_minutes) enters its loop with minute = 0,
\* whatever cpu_usage already holds; the calls together take at most
\* MaxMinutes readings.
SimulateLoad ==
    /\ hpa_loop.minute = hpa_loop.duration_minutes
    /\ \E duration_minutes \in 1..(MaxMinutes - Len(hpa.cpu_usage)) :
          hpa_loop' = [minute |-> 0, duration_minutes |-> duration_minutes]
    /\ last' = Call("simulate_load", None, None)
    /\ CountCall
    /\ UNCHANGED <<devopsVars, ramVars, hpa>>

\* One iteration of the loop: one simulated minute.
SimulateMinute ==
    /\ hpa_loop.minute < hpa_loop.duration_minutes
    /\ \E cpu \in CpuReadings(hpa_loop.minute) :
          hpa' = simulate_load_minute(hpa, cpu)
    /\ hpa_loop' = [hpa_loop EXCEPT !.minute = @ + 1]
    /\ UNCHANGED <<devopsVars, ramVars, caller, last>>

NextHPA ==
    \/ SimulateLoad
    \/ SimulateMinute

SpecHPA == InitHPA /\ [][NextHPA]_vars

\* The caller goes on calling methods for as long as some call is possible.
FairSpec == Spec /\ WF_vars(Next)

-----------------------------------------------------------------------------
(* Both classes over their whole lifetime *)

\* Every method of AzureDevOpsSimulator and of ReleaseApprovalManager, in
\* any order and in any state, for the first MaxCalls calls.
NextLife ==
    \/ CreateUser
    \/ Login
    \/ CreateGroup
    \/ AddUserToGroup
    \/ CreateBranch
    \/ ApplyBranchPolicy
    \/ ApplyBranchSecurity
    \/ LockBranch
    \/ ApplyBranchFilters
    \/ CreatePullRequest
    \/ ApprovePullRequest
    \/ CompletePullRequest
    \/ CreateWorkItem
    \/ LinkWorkItemToPr
    \/ CreatePipeline
    \/ ApplyBuildTriggers
    \/ AddPipelineGate
    \/ RunPipeline
    \/ CreateEnvironment
    \/ AddApprover
    \/ RequestApproval
    \/ ProcessApproval

SpecLife == InitLife /\ [][NextLife]_vars

-----------------------------------------------------------------------------
(* Pull requests: approvals and completion *)

FewerApprovals(pr) == Cardinality(pr.approvals) < Len(pr.reviewers)

\* the logged-in user has the PROJECT_ADMIN role
HoldsProjectAdmin ==
    /\ current_user.present
    /\ current_user.name \in DOMAIN users
    /\ PROJECT_ADMIN \in users[current_user.name]

\* p is moved to COMPLETED by this step
Completes(p) ==
    /\ p \in DOMAIN pull_requests
    /\ pull_requests[p].status # COMPLETED
    /\ pull_requests'[p].status = COMPLETED

\* C1: while a pull request has fewer approvals than reviewers no step
\* changes its status, and a complete_pull_request call on it returns False.
C1_NoCompletionWithoutApprovals ==
    [][\A p \in DOMAIN pull_requests :
          FewerApprovals(pull_requests[p]) =>
              /\ pull_requests'[p].status = pull_requests[p].status
              /\ (last'.op = "complete_pull_request" /\ last'.arg = p)
                     => last'.ret = "False"]_vars

\* C1 witness: a project administrator's call was refused for an active
\* pull request that lacks an approval.
C1_Witness ==
    /\ last.op = "complete_pull_request"
    /\ last.ret = "False"
    /\ last.arg \in DOMAIN pull_requests
    /\ FewerApprovals(pull_requests[last.arg])
    /\ pull_requests[last.arg].status = ACTIVE
    /\ HoldsProjectAdmin

\* C2: every COMPLETED pull request has the approval of each of its
\* reviewers.
C2_CompletedHasAllApprovals ==
    \A p \in DOMAIN pull_requests :
        pull_requests[p].status = COMPLETED =>
            Range(pull_requests[p].reviewers) \subseteq pull_requests[p].approvals

\* C2 witness: a completed pull request that had a reviewer.
C2_Witness ==
    \E p \in DOMAIN pull_requests :
        /\ pull_requests[p].status = COMPLETED
        /\ pull_requests[p].reviewers # <<>>
        /\ last.op = "complete_pull_request"

\* C3: a pull request to main is moved to COMPLETED only by a step taken
\* while the current user holds PROJECT_ADMIN; a complete_pull_request call
\* on it by any other logged-in user returns False and changes nothing.
C3_MainNeedsProjectAdmin ==
    [][\A p \in DOMAIN pull_requests :
          pull_requests[p].target_branch = "main" =>
              /\ Completes(p) => HoldsProjectAdmin
              /\ (/\ last'.op = "complete_pull_request"
                  /\ last'.arg = p
                  /\ current_user.present
                  /\ ~HoldsProjectAdmin)
                     => (last'.ret = "False" /\ UNCHANGED devopsVars)]_vars

\* C3 witness: a fully approved pull request to main was refused to a
\* logged-in user without the role.
C3_Witness ==
    /\ last.op = "complete_pull_request"
    /\ last.ret = "False"
    /\ last.arg \in DOMAIN pull_requests
    /\ pull_requests[last.arg].target_branch = "main"
    /\ ~FewerApprovals(pull_requests[last.arg])
    /\ pull_requests[last.arg].reviewers # <<>>
    /\ current_user.present
    /\ ~HoldsProjectAdmin

\* the number of merge entries of pull request p in the commits list s
RECURSIVE Merges(_, _)
Merges(s, p) ==
    IF s = <<>> THEN 0
    ELSE (IF Head(s) = MergeEntry(p) THEN 1 ELSE 0) + Merges(Tail(s), p)

\* C4: a pull request is created ACTIVE, and once it is COMPLETED or
\* ABANDONED no step changes its status or completed_date or adds a merge
\* entry for it to a branch.
C4_Claim ==
    [][/\ \A p \in DOMAIN pull_requests' \ DOMAIN pull_requests :
             pull_requests'[p].status = ACTIVE
       /\ \A p \in DOMAIN pull_requests :
             pull_requests[p].status \in {COMPLETED, ABANDONED} =>
                 /\ pull_requests'[p].status = pull_requests[p].status
                 /\ pull_requests'[p].completed_date =
                        pull_requests[p].completed_date
                 /\ \A b \in DOMAIN branches :
                        Merges(branches'[b].commits, p)
                            <= Merges(branches[b].commits, p)]_vars

\* C5: some pull request eventually has status ABANDONED.
C5_Claim ==
    <>(\E p \in DOMAIN pull_requests : pull_requests[p].status = ABANDONED)

\* C6: the approvals of a pull request are among its reviewers, and
\* approve_pull_request by a user who is not a reviewer returns False and
\* leaves the pull requests as they are.
C6_ApprovalsAmongReviewers ==
    \A p \in DOMAIN pull_requests :
        /\ pull_requests[p].approvals \subseteq Range(pull_requests[p].reviewers)
        /\ (\/ ~current_user.present
            \/ current_user.name \notin Range(pull_requests[p].reviewers)) =>
               LET r == approve_pull_request(current_user, pull_requests, p)
               IN  ~r.ret /\ r.pull_requests = pull_requests

\* C6 witness: a logged-in user who is not a reviewer was refused on a pull
\* request that has reviewers.
C6_Witness ==
    /\ last.op = "approve_pull_request"
    /\ last.ret = "False"
    /\ last.arg \in DOMAIN pull_requests
    /\ current_user.present
    /\ pull_requests[last.arg].reviewers # <<>>
    /\ current_user.name \notin Range(pull_requests[last.arg].reviewers)

\* C7 as claimed: the author of every COMPLETED pull request is in its
\* reviewers list.
C7_Claim ==
    \A p \in DOMAIN pull_requests :
        pull_requests[p].status = COMPLETED =>
            pull_requests[p].author \in Range(pull_requests[p].reviewers)

\* C7 amended: a pull request is moved to COMPLETED only when each of its
\* reviewers has approved; the reviewers list is empty or <<"admin">> and
\* does not depend on the author, who need not be in it.
C7_MergeNeedsReviewersNotAuthor ==
    [][\A p \in DOMAIN pull_requests :
          Completes(p) =>
              /\ pull_requests[p].reviewers \in {<<>>, <<"admin">>}
              /\ Range(pull_requests[p].reviewers)
                     \subseteq pull_requests[p].approvals]_vars

\* C7 witness: a merged pull request with a reviewer whose author is not in
\* the reviewers list.
C7_Witness ==
    \E p \in DOMAIN pull_requests :
        /\ pull_requests[p].status = COMPLETED
        /\ pull_requests[p].reviewers # <<>>
        /\ pull_requests[p].author \notin Range(pull_requests[p].reviewers)

-----------------------------------------------------------------------------
(* Groups *)

\* C8: add_user_to_group applied again to its own result, once or twice,
\* gives the same groups and returns the same value.
C8_AddUserToGroupIdempotent ==
    \A username \in UserInputs, group_name \in GroupInputs :
        LET once == add_user_to_group(users, groups, username, group_name)
            twice == add_user_to_group(users, once.groups, username, group_name)
            thrice == add_user_to_group(users, twice.groups, username,
                                        group_name)
        IN  /\ twice = once
            /\ thrice = once

\* C8 witness: a user was added to the new group Release, so the first
\* call changed the membership.
C8_Witness ==
    /\ last.op = "add_user_to_group"
    /\ last.ret = "True"
    /\ "Release" \in DOMAIN groups
    /\ last.arg \in groups["Release"]

-----------------------------------------------------------------------------
(* Approval requests *)

Approvers(request) == heap[request.approvers]

AllResponded(request) == Range(Approvers(request)) \subseteq DOMAIN request.responses

\* C9: an approval request that is not Pending has a response from every
\* approver on its list.
C9_Claim ==
    \A i \in DOMAIN approval_requests :
        approval_requests[i].status # PENDING => AllResponded(approval_requests[i])

\* C10: an approval request with an accepted response from every approver
\* on its list is not Pending.
C10_Claim ==
    \A i \in DOMAIN approval_requests :
        (/\ DOMAIN approval_requests[i].responses # {}
         /\ AllResponded(approval_requests[i]))
            => approval_requests[i].status # PENDING

\* the requests after process_approval is called with the given request id
\* for each approver of `order` in turn, with the decision assigned to him
RECURSIVE Deliver(_, _, _, _, _)
Deliver(hp, reqs, request_id, order, decisions) ==
    IF order = <<>>
    THEN reqs
    ELSE Deliver(hp,
                 process_approval(hp, reqs, request_id, Head(order),
                                  decisions[Head(order)]).approval_requests,
                 request_id, Tail(order), decisions)

\* the orders in which the approvers of the set A can respond once each
Orders(A) == {s \in [1..Cardinality(A) -> A] : Range(s) = A}

\* C11: when process_approval records a response after which every listed
\* approver has responded, the status is Approved exactly when every
\* recorded decision is "Approved", and Rejected when one is anything else.
C11_Claim ==
    \A request_id \in RequestIdInputs, approver \in ApproverInputs,
       decision \in DecisionInputs :
        LET i == MatchingRequest(heap, approval_requests, request_id, approver)
            r == process_approval(heap, approval_requests, request_id,
                                  approver, decision)
        IN  (i # 0 /\ AllResponded(r.approval_requests[i])) =>
                LET request == r.approval_requests[i]
                    unanimous == \A a \in DOMAIN request.responses :
                                     request.responses[a] = APPROVED
                IN  /\ request.status = APPROVED <=> unanimous
                    /\ ~unanimous => request.status = REJECTED

\* C12: for every request and every assignment of one decision to each of
\* its approvers, all orders of delivering the responses leave the same
\* requests (statuses and recorded decisions).
C12_OrderIndependent ==
    \A i \in DOMAIN approval_requests :
        LET A == Range(Approvers(approval_requests[i]))
            id == approval_requests[i].id
        IN  \A decisions \in [A -> DecisionInputs] :
                LET o1 == CHOOSE o \in Orders(A) : TRUE
                    result == Deliver(heap, approval_requests, id, o1,
                                      decisions)
                IN  \A o2 \in Orders(A) :
                        Deliver(heap, approval_requests, id, o2, decisions)
                            = result

\* C12 witness: two approvers have answered one request with different
\* decisions and the request is resolved.
C12_Witness ==
    /\ last.op = "process_approval"
    /\ last.ret = "True"
    /\ \E i \in DOMAIN approval_requests :
          /\ approval_requests[i].id = last.arg
          /\ approval_requests[i].status = REJECTED
          /\ \E a, b \in DOMAIN approval_requests[i].responses :
                /\ approval_requests[i].responses[a] = APPROVED
                /\ approval_requests[i].responses[b] # APPROVED

\* C13: once a request is Approved or Rejected no step changes its status.
C13_Claim ==
    [][\A i \in DOMAIN approval_requests :
          approval_requests[i].status # PENDING =>
              approval_requests'[i].status = approval_requests[i].status]_vars

\* C15: request_approval for an environment that does not exist raises no
\* exception and leaves approval_requests and environments unchanged.
C15_Claim ==
    [][(last'.op = "request_approval" /\ last'.arg \notin DOMAIN environments)
          => /\ last'.ret # "KeyError"
             /\ approval_requests' = approval_requests
             /\ environments' = environments]_vars

\* C17: the approvers who have a recorded response on a request are listed
\* on it, and process_approval with a request id and an approver such that
\* no request with that id lists the approver returns False and leaves the
\* requests unchanged.
C17_OnlyListedApproversRespond ==
    /\ \A i \in DOMAIN approval_requests :
          DOMAIN approval_requests[i].responses
              \subseteq Range(Approvers(approval_requests[i]))
    /\ \A request_id \in RequestIdInputs \cup {"approval-00000000"},
          approver \in ApproverInputs \cup {Intruder},
          decision \in DecisionInputs :
          (\A i \in DOMAIN approval_requests :
               approval_requests[i].id = request_id =>
                   approver \notin Range(Approvers(approval_requests[i])))
              => LET r == process_approval(heap, approval_requests,
                                           request_id, approver, decision)
                 IN  ~r.ret /\ r.approval_requests = approval_requests

\* C17 witness: a response to an existing request, which has approvers, was
\* refused.
C17_Witness ==
    /\ last.op = "process_approval"
    /\ last.ret = "False"
    /\ \E i \in DOMAIN approval_requests :
          /\ approval_requests[i].id = last.arg
          /\ Approvers(approval_requests[i]) # <<>>

-----------------------------------------------------------------------------
(* AzureDevOpsSimulator: unknown names, creation and completion *)

\* the call recorded by this step names a user, branch or pull request that
\* does not exist
GivenUnknown ==
    \/ /\ last'.op \in {"login", "add_user_to_group", "create_work_item"}
       /\ last'.arg \notin DOMAIN users
    \/ /\ last'.op \in {"apply_branch_policy", "apply_branch_security",
                        "lock_branch", "apply_branch_filters",
                        "create_pull_request"}
       /\ last'.arg \notin DOMAIN branches
    \/ /\ last'.op \in {"approve_pull_request", "complete_pull_request",
                        "link_work_item_to_pr"}
       /\ last'.arg \notin DOMAIN pull_requests

\* C14: a call that names a user, branch or pull request that does not
\* exist leaves the whole simulator unchanged.
C14_Claim ==
    [][GivenUnknown => UNCHANGED devopsVars]_vars

\* the reviewers a pull request to target gets from the branches as they are
ExpectedReviewers(target) ==
    IF /\ target = "main"
       /\ "main" \in DOMAIN branches
       /\ branches["main"].policy.present
       /\ branches["main"].policy.require_code_review
    THEN <<"admin">>
    ELSE <<>>

\* C18: create_pull_request with nobody logged in returns None and creates
\* nothing; a pull request that appears has the logged-in user as author,
\* is ACTIVE, has no approvals, and has reviewers <<"admin">> exactly when
\* its target is main and main's policy requires code review.
C18_CreatedPullRequest ==
    [][/\ (last'.op = "create_pull_request" /\ ~current_user.present)
              => (last'.ret = None /\ pull_requests' = pull_requests)
       /\ \A p \in DOMAIN pull_requests' \ DOMAIN pull_requests :
              /\ current_user.present
              /\ pull_requests'[p].author = current_user.name
              /\ pull_requests'[p].status = ACTIVE
              /\ pull_requests'[p].approvals = {}
              /\ pull_requests'[p].reviewers =
                     ExpectedReviewers(pull_requests'[p].target_branch)]_vars

\* C18 witness: a pull request to main was created while main's policy did
\* not require code review, so it has no reviewers.
C18_Witness ==
    /\ last.op = "create_pull_request"
    /\ last.ret \in DOMAIN pull_requests
    /\ pull_requests[last.ret].target_branch = "main"
    /\ pull_requests[last.ret].reviewers = <<>>
    /\ pull_requests[last.ret].status = ACTIVE
    /\ branches["main"].policy.present

\* the effect of a successful complete_pull_request(p) and of a failed one
CompleteEffect ==
    last'.op = "complete_pull_request" =>
        IF last'.ret = "True"
        THEN LET p == last'.arg
                 target == pull_requests[p].target_branch
             IN  /\ p \in DOMAIN pull_requests
                 /\ pull_requests'[p].completed_date # 0
                 /\ pull_requests' =
                        [pull_requests EXCEPT
                            ![p].status = COMPLETED,
                            ![p].completed_date =
                                pull_requests'[p].completed_date]
                 /\ branches' =
                        IF target \in DOMAIN branches
                        THEN [branches EXCEPT ![target].commits =
                                  Append(@, MergeEntry(p))]
                        ELSE branches
                 /\ UNCHANGED <<users, groups, work_items, work_item_lists,
                                current_user, pipelines>>
        ELSE UNCHANGED devopsVars

\* C20: a successful complete_pull_request sets status and completed_date,
\* appends one merge entry to the existing target branch and changes nothing
\* else; a failed call changes nothing; completed_date is set exactly for
\* the COMPLETED pull requests.
C20_CompleteFrame ==
    /\ [](\A p \in DOMAIN pull_requests :
              pull_requests[p].completed_date # 0
                  <=> pull_requests[p].status = COMPLETED)
    /\ [][CompleteEffect]_vars

\* C20 witness: a completion that merged into an existing branch.
C20_Witness ==
    /\ last.op = "complete_pull_request"
    /\ last.ret = "True"
    /\ pull_requests[last.arg].target_branch \in DOMAIN branches
    /\ branches[pull_requests[last.arg].target_branch].commits # <<>>

-----------------------------------------------------------------------------
(* AzureDevOpsSimulator: branch locks *)

\* the lock of a branch: is_locked and lock_reason of its security, if any
LockOf(brs, b) ==
    IF b \in DOMAIN brs /\ brs[b].security.present
    THEN <<brs[b].security.is_locked, brs[b].security.lock_reason>>
    ELSE <<FALSE, "">>

LockEffect ==
    last'.op = "lock_branch" =>
        LET b == last'.arg
            allowed == /\ HoldsProjectAdmin
                       /\ b \in DOMAIN branches
                       /\ branches[b].security.present
        IN  IF allowed
            THEN /\ last'.ret = "True"
                 /\ LockOf(branches', b) = <<TRUE, "Preparing for release">>
                 /\ \A o \in DOMAIN branches \ {b} :
                        branches'[o] = branches[o]
            ELSE /\ last'.ret = "False"
                 /\ \A o \in DOMAIN branches \cup DOMAIN branches' :
                        LockOf(branches', o) = LockOf(branches, o)

\* C19: lock_branch locks the named branch exactly when the current user
\* holds PROJECT_ADMIN and the branch exists with security applied; in every
\* other case it returns False and no branch's is_locked or lock_reason
\* changes.
C19_LockNeedsAdminAndSecurity == [][LockEffect]_vars

\* C19 witness: a logged-in user without PROJECT_ADMIN was refused the lock
\* of a branch that exists and has security applied.
C19_Witness ==
    /\ last.op = "lock_branch"
    /\ last.ret = "False"
    /\ last.arg = "main"
    /\ current_user.present
    /\ ~HoldsProjectAdmin
    /\ branches["main"].security.present
    /\ ~branches["main"].security.is_locked

-----------------------------------------------------------------------------
(* Lifecycle: nothing is destroyed *)

KeysGrow ==
    /\ DOMAIN users \subseteq DOMAIN users'
    /\ DOMAIN groups \subseteq DOMAIN groups'
    /\ DOMAIN branches \subseteq DOMAIN branches'
    /\ DOMAIN pull_requests \subseteq DOMAIN pull_requests'
    /\ DOMAIN work_items \subseteq DOMAIN work_items'
    /\ DOMAIN pipelines \subseteq DOMAIN pipelines'
    /\ DOMAIN environments \subseteq DOMAIN environments'
    /\ Len(approval_requests) =< Len(approval_requests')
    /\ \A i \in DOMAIN approval_requests :
           approval_requests'[i].id = approval_requests[i].id

\* C16: no method of AzureDevOpsSimulator removes a key of users, groups,
\* branches, pull_requests, work_items or pipelines, and no method of
\* ReleaseApprovalManager removes an environment or a request of
\* approval_requests.
C16_NothingDestroyed == [][KeysGrow]_vars

\* C16 witness: create_branch has replaced an existing branch that carried
\* a policy, and the three branches are all still there.
C16_Witness ==
    /\ last.op = "create_branch"
    /\ last.arg = "main"
    /\ branches["main"] = Branch
    /\ DOMAIN branches = DOMAIN InitBranches
    /\ DOMAIN pull_requests # {}

-----------------------------------------------------------------------------
(* AzureDevOpsSimulator: pipeline runs *)

RunEffect ==
    (last'.op = "run_pipeline" /\ last'.arg \in DOMAIN pipelines) =>
        /\ last'.ret = "True"
        /\ pipelines'[last'.arg].status = PIPELINE_SUCCEEDED
        /\ pipelines'[last'.arg].last_run # 0
        /\ pipelines'[last'.arg].gates = pipelines[last'.arg].gates

\* C21: run_pipeline on an existing pipeline ends with status SUCCEEDED and
\* last_run set whatever its gates are; between calls a pipeline is PENDING
\* with no last_run (never run) or SUCCEEDED with last_run set, and no
\* other status is ever seen.
C21_RunAlwaysSucceeds ==
    /\ [](\A p \in DOMAIN pipelines :
              \/ /\ pipelines[p].status = PIPELINE_PENDING
                 /\ pipelines[p].last_run = 0
              \/ /\ pipelines[p].status = PIPELINE_SUCCEEDED
                 /\ pipelines[p].last_run # 0)
    /\ [][RunEffect]_vars

\* C21 witness: a pipeline with an enabled gate that requires approval and
\* names approvers has been run and is SUCCEEDED.
C21_Witness ==
    /\ last.op = "run_pipeline"
    /\ last.ret = "True"
    /\ last.arg \in DOMAIN pipelines
    /\ pipelines[last.arg].status = PIPELINE_SUCCEEDED
    /\ \E i \in DOMAIN pipelines[last.arg].gates :
           LET gate == pipelines[last.arg].gates[i]
           IN  gate.is_enabled /\ gate.approval_required
               /\ gate.approvers # <<>>

-----------------------------------------------------------------------------
(* Merges, request ids and locks *)

\* C23: the commits of a branch hold at most one merge entry for each pull
\* request.
C23_Claim ==
    \A b \in DOMAIN branches : \A p \in DOMAIN pull_requests :
        Merges(branches[b].commits, p) =< 1

\* C24: no two requests of approval_requests have the same id.
C24_Claim ==
    \A i \in DOMAIN approval_requests : \A j \in DOMAIN approval_requests :
        approval_requests[i].id = approval_requests[j].id => i = j

\* C25: a locked branch stays locked, with its lock_reason, at every step.
C25_Claim ==
    [][\A b \in DOMAIN branches :
          LockOf(branches, b)[1] =>
              LockOf(branches', b) = LockOf(branches, b)]_vars

\* C26: no step appends to the commits of a branch that is locked.
C26_Claim ==
    [][\A b \in DOMAIN branches :
          LockOf(branches, b)[1] =>
              /\ b \in DOMAIN branches'
              /\ branches'[b].commits = branches[b].commits]_vars

-----------------------------------------------------------------------------
(* HPASimulator: the replica count *)

\* the reading and the counts of the minute just simulated
MinuteEffect ==
    hpa'.cpu_usage # hpa.cpu_usage =>
        LET cpu == hpa'.cpu_usage[Len(hpa'.cpu_usage)]
            before == hpa.current_replicas
            after == hpa'.current_replicas
        IN  /\ Len(hpa'.cpu_usage) = Len(hpa.cpu_usage) + 1
            /\ after \in {before - 1, before, before + 1}
            /\ after = before + 1 => cpu > hpa.target_cpu
            /\ after = before - 1 => cpu < hpa.target_cpu - 10
            /\ (cpu =< hpa.target_cpu /\ cpu >= hpa.target_cpu - 10)
                  => after = before
            /\ hpa'.replica_history[Len(hpa'.replica_history)] = after

\* C22: with min_replicas =< max_replicas, after every simulated minute the
\* replica count is between min_replicas and max_replicas, it has moved by
\* at most one (up only on a reading above target_cpu, down only on a
\* reading below target_cpu - 10, not at all on a reading in between), and
\* replica_history is as long as cpu_usage.
C22_ReplicasWithinBounds ==
    /\ [](/\ hpa.min_replicas =< hpa.current_replicas
          /\ hpa.current_replicas =< hpa.max_replicas
          /\ Len(hpa.replica_history) = Len(hpa.cpu_usage)
          /\ \A i \in DOMAIN hpa.replica_history :
                 /\ hpa.min_replicas =< hpa.replica_history[i]
                 /\ hpa.replica_history[i] =< hpa.max_replicas)
    /\ [][MinuteEffect]_vars

\* C22 witness: the count was at max_replicas, above min_replicas, when
\* one more reading above target_cpu came in.
C22_Witness ==
    /\ Len(hpa.cpu_usage) >= 2
    /\ hpa.min_replicas < hpa.max_replicas
    /\ hpa.current_replicas = hpa.max_replicas
    /\ hpa.replica_history[Len(hpa.replica_history) - 1] = hpa.max_replicas
    /\ hpa.cpu_usage[Len(hpa.cpu_usage)] > hpa.target_cpu
====
